---- MODULE Spec2Model ----
(***************************************************************************)
(* A model of jsl-codegen: the schema-to-AST transform of the Go and the   *)
(* TypeScript backends (src/src/codegen/go, src/src/codegen/typescript),   *)
(* the Go emitter, and the discriminated-union codec that the Go emitter   *)
(* writes out (UnmarshalJSON / MarshalJSON of the holder struct).          *)
(*                                                                         *)
(* Strings are sequences of one-character strings, so that the case        *)
(* conversions of the Inflector crate can be computed character by         *)
(* character.  A HashMap is a sequence of entries with distinct keys: the  *)
(* sequence is the order in which this process iterates the map.           *)
(***************************************************************************)
EXTENDS Integers, Sequences, FiniteSets, TLC

VARIABLES
    backend,    \* which generator runs: "go", "ts", or the target "java"
    schema,     \* the validated input document: [root, definitions]
    pc,         \* position of the run: "defs", "serialize", "done", "aborted"
    idx,        \* index of the next definition the loop of transform visits
    out,        \* the output declaration list (Vec<Ast>) of this run
    text,       \* the emitted source text of this run (a sequence of tokens)
    run,        \* number of the invocation (1 = first)
    prev,       \* out and text of the previous invocation on the same document
    holder,     \* a value of the generated Go holder struct, or None
    wire,       \* the last MarshalJSON call: its receiver and its result
    def_names,  \* targets/java: the HashMap from a definition to its rendered name
    stack,      \* the transform_subschema calls still to be made, the next one first
    trace       \* the [path, node] of every call made so far in this pass

vars == <<backend, schema, pc, idx, out, text, run, prev, holder, wire, def_names, stack, trace>>

----------------------------------------------------------------------------
(* Characters and strings                                                  *)

Lowers == <<"a", "b", "p", "q", "r", "t", "x", "y">>
Uppers == <<"A", "B", "P", "Q", "R", "T", "X", "Y">>
Digits == <<"0", "1">>

\* char::is_lowercase / is_uppercase / is_numeric on the model's alphabet
is_lowercase(c) == \E i \in 1..Len(Lowers) : Lowers[i] = c
is_uppercase(c) == \E i \in 1..Len(Uppers) : Uppers[i] = c
is_numeric(c) == \E i \in 1..Len(Digits) : Digits[i] = c

to_ascii_uppercase(c) ==
    IF is_lowercase(c) THEN Uppers[CHOOSE i \in 1..Len(Lowers) : Lowers[i] = c] ELSE c

to_ascii_lowercase(c) ==
    IF is_uppercase(c) THEN Lowers[CHOOSE i \in 1..Len(Uppers) : Uppers[i] = c] ELSE c

\* Inflector: a separator is any character that is not alphanumeric
char_is_seperator(c) == ~(is_lowercase(c) \/ is_uppercase(c) \/ is_numeric(c))

\* Inflector's to_case_camel_like, one character at a time.  st is the loop
\* state [new_word, last_char, found_real_char, result]; the options of
\* camel case and pascal case insert no separator and are not inverted, so a
\* new word always starts with an upper-case character.
RECURSIVE to_case_camel_like(_, _, _)
to_case_camel_like(s, i, st) ==
    IF i > Len(s) THEN st.result
    ELSE LET c == s[i] IN
      IF char_is_seperator(c) /\ st.found_real_char
        THEN to_case_camel_like(s, i + 1, [st EXCEPT !.new_word = TRUE])
      ELSE IF ~st.found_real_char /\ char_is_seperator(c)
        THEN to_case_camel_like(s, i + 1, st)
      ELSE IF is_numeric(c)
        THEN to_case_camel_like(s, i + 1,
               [st EXCEPT !.found_real_char = TRUE, !.new_word = TRUE,
                          !.result = Append(st.result, c)])
      ELSE IF st.new_word \/ (is_lowercase(st.last_char) /\ is_uppercase(c))
        THEN to_case_camel_like(s, i + 1,
               [st EXCEPT !.found_real_char = TRUE, !.new_word = FALSE,
                          !.result = Append(st.result, to_ascii_uppercase(c))])
      ELSE to_case_camel_like(s, i + 1,
               [st EXCEPT !.found_real_char = TRUE, !.last_char = c,
                          !.result = Append(st.result, to_ascii_lowercase(c))])

to_pascal_case(s) ==
    to_case_camel_like(s, 1, [new_word |-> TRUE, last_char |-> " ",
                              found_real_char |-> FALSE, result |-> <<>>])

to_camel_case(s) ==
    to_case_camel_like(s, 1, [new_word |-> FALSE, last_char |-> " ",
                              found_real_char |-> FALSE, result |-> <<>>])

\* to_class_case is pascal case with the last word singularized; the tag
\* names of the model hold no plural ending, so no word changes.
to_class_case(s) == to_pascal_case(s)

\* [String]::join("_")
RECURSIVE join(_)
join(path) ==
    IF path = <<>> THEN <<>>
    ELSE IF Len(path) = 1 THEN path[1]
    ELSE path[1] \o <<"_">> \o join(Tail(path))

path_to_identifier(path) == to_pascal_case(join(path))

----------------------------------------------------------------------------
(* Schema nodes (jsl::Schema, given): one record per form                  *)

Empty == [form |-> "Empty"]
Ref(def) == [form |-> "Ref", def |-> def]
Type(typ) == [form |-> "Type", typ |-> typ]
Enum(vals) == [form |-> "Enum", vals |-> vals]
Elements(sub) == [form |-> "Elements", sub |-> sub]
Properties(required, optional) ==
    [form |-> "Properties", required |-> required, optional |-> optional]
Values(sub) == [form |-> "Values", sub |-> sub]
Discriminator(tag, mapping) ==
    [form |-> "Discriminator", tag |-> tag, mapping |-> mapping]

\* one entry of a HashMap<String, Schema>
Entry(name, sub) == [name |-> name, schema |-> sub]

----------------------------------------------------------------------------
(* The Go backend: codegen/go/mod.rs                                       *)

GoAny == [k |-> "Any"]
GoBoolean == [k |-> "Boolean"]
GoNumber == [k |-> "Number"]
GoString == [k |-> "String"]
GoTime == [k |-> "Time"]
GoLiteral(lit) == [k |-> "Literal", lit |-> lit]
GoIdentifier(id) == [k |-> "Identifier", id |-> id]
GoArray(ast) == [k |-> "Array", ast |-> ast]
GoMap(ast) == [k |-> "Map", ast |-> ast]
GoType(id, ast) == [k |-> "Type", id |-> id, ast |-> ast]
GoVar(name, typ, val) == [k |-> "Var", id |-> name, typ |-> typ, val |-> val]
\* json is <<>> (None) or <<[tag, mapping]>> (Some), mapping a function from
\* tag values to identifier ASTs
GoStruct(name, props, json) ==
    [k |-> "Struct", id |-> name, props |-> props, json |-> json]

\* pub struct Property of the Go backend: it has no field for `required`
GoProperty(name, json_name, value) ==
    [name |-> name, json_name |-> json_name, value |-> value]

\* The value a transform call leaves behind: the returned Ast, the output
\* list and the path after the call, and whether the call returned at all
\* (ok = FALSE: it hit unreachable!()).
Ret(ast, o, path, ok) == [ast |-> ast, out |-> o, path |-> path, ok |-> ok]

Pop(path) == SubSeq(path, 1, Len(path) - 1)

\* HashMap::insert of the (name, case) pairs, lines 160-163
RECURSIVE InsertAll(_, _, _)
InsertAll(m, names, vals) ==
    IF names = <<>> THEN m
    ELSE InsertAll([n \in DOMAIN m \cup {names[1]} |->
                       IF n = names[1] THEN vals[1] ELSE m[n]],
                   Tail(names), Tail(vals))

EmptyMap == [n \in {} |-> GoAny]

\* Each step of a function body is an operator of its own that takes the
\* value of the step before it as a parameter.

RECURSIVE go_transform_subschema(_, _, _)
RECURSIVE go_props_loop(_, _, _, _, _, _)
RECURSIVE go_cases_loop(_, _, _, _, _, _)

\* mutant: transform_prop without its path.pop()
go_prop_of_no_pop(name, r) ==
    [prop |-> GoProperty(to_pascal_case(name), name, r.ast),
     out |-> r.out, path |-> r.path, ok |-> r.ok]

\* transform_prop after its call of transform_subschema: path.pop() and the
\* Property; `required` is not stored
go_prop_of(name, r) ==
    [prop |-> GoProperty(to_pascal_case(name), name, r.ast),
     out |-> r.out, path |-> Pop(r.path), ok |-> r.ok]

go_transform_prop(o, path, required, name, prop) ==
    go_prop_of(name, go_transform_subschema(o, Append(path, name), prop))

\* props.push(..) and the next turn of the loop
go_props_push(required, entries, i, props, r) ==
    IF ~r.ok THEN [props |-> props, out |-> r.out, path |-> r.path, ok |-> FALSE]
    ELSE go_props_loop(r.out, r.path, required, entries, i + 1, Append(props, r.prop))

\* for (name, prop) in required/optional { props.push(transform_prop(..)) }
go_props_loop(o, path, required, entries, i, props) ==
    IF i > Len(entries) THEN [props |-> props, out |-> o, path |-> path, ok |-> TRUE]
    ELSE go_props_push(required, entries, i, props,
                       go_transform_prop(o, path, required, entries[i].name,
                                         entries[i].schema))

\* mutant: the struct is put in front of the list, not at its end
go_push_struct_first(l, id) ==
    Ret(GoIdentifier(id), <<GoStruct(id, l.props, <<>>)>> \o l.out, l.path, l.ok)

\* out.push(Ast::Struct(id, props, None)); Ast::Identifier(id)
go_push_struct(l, id) ==
    Ret(GoIdentifier(id), Append(l.out, GoStruct(id, l.props, <<>>)), l.path, l.ok)

go_optional_loop(node, req) ==
    IF ~req.ok THEN req
    ELSE go_props_loop(req.out, req.path, FALSE, node.optional, 1, req.props)

go_struct_of(l) ==
    IF ~l.ok THEN Ret(GoAny, l.out, l.path, FALSE)
    ELSE go_push_struct(l, path_to_identifier(l.path))

\* mutant: the loop over optional runs before the loop over required
go_properties_optional_first(o, path, node) ==
    go_struct_of(go_optional_loop([node EXCEPT !.optional = node.required],
                    go_props_loop(o, path, FALSE, node.optional, 1, <<>>)))

\* the body shared by the Properties arm and by one case of a Discriminator:
\* the required loop, the optional loop, then the push of the struct
go_properties(o, path, node) ==
    go_struct_of(go_optional_loop(node,
                    go_props_loop(o, path, TRUE, node.required, 1, <<>>)))

\* cases.push, case_names.push, path.pop() and the next turn of the loop
go_cases_push(mapping, i, cases, case_names, r) ==
    IF ~r.ok
      THEN [cases |-> cases, case_names |-> case_names, out |-> r.out,
            path |-> r.path, ok |-> FALSE]
      ELSE go_cases_loop(r.out, Pop(r.path), mapping, i + 1, Append(cases, r.ast),
                         Append(case_names, mapping[i].name))

\* for (name, case) in mapping { ... }, lines 135-158
go_cases_loop(o, path, mapping, i, cases, case_names) ==
    IF i > Len(mapping)
      THEN [cases |-> cases, case_names |-> case_names, out |-> o, path |-> path,
            ok |-> TRUE]
    ELSE IF mapping[i].schema.form # "Properties"
      THEN [cases |-> cases, case_names |-> case_names, out |-> o,
            path |-> Append(path, mapping[i].name), ok |-> FALSE]
    ELSE go_cases_push(mapping, i, cases, case_names,
                       go_properties(o, Append(path, mapping[i].name),
                                     mapping[i].schema))

\* mutant: the vars are declared as plain strings, not as values of the enum
go_enum_vars_untyped(name, vals) ==
    [i \in 1..Len(vals) |->
        GoVar(to_camel_case(name \o <<"_">> \o vals[i]), GoString,
              GoLiteral(vals[i]))]

go_enum_vars(name, vals) ==
    [i \in 1..Len(vals) |->
        GoVar(to_camel_case(name \o <<"_">> \o vals[i]), GoIdentifier(name),
              GoLiteral(vals[i]))]

\* the Enum arm: the type declaration, then one var per value
go_enum(o, path, vals, name) ==
    Ret(GoIdentifier(name),
        Append(o, GoType(name, GoString)) \o go_enum_vars(name, vals), path, TRUE)

go_type(typ) ==
    CASE typ = "boolean" -> GoBoolean
      [] typ = "number" -> GoNumber
      [] typ = "string" -> GoString
      [] typ = "timestamp" -> GoTime

\* mutant: the active value is given a wire name
go_holder_props_val_on_wire(tag) ==
    << GoProperty(to_class_case(tag), tag, GoString),
       GoProperty(<<"V", "a", "l">>, <<"v", "a", "l">>, GoAny) >>

go_holder_props(tag) ==
    << GoProperty(to_class_case(tag), tag, GoString),
       GoProperty(<<"V", "a", "l">>, <<"-">>, GoAny) >>

\* out.push(Ast::Struct(id, props, Some((tag, mapping)))); Ast::Identifier(id)
go_push_holder(l, tag, mapping, id) ==
    Ret(GoIdentifier(id),
        Append(l.out, GoStruct(id, go_holder_props(tag),
                               << [tag |-> tag, mapping |-> mapping] >>)),
        l.path, TRUE)

\* the Discriminator arm after its loop, lines 160-182
go_holder_of(tag, l) ==
    IF ~l.ok THEN Ret(GoAny, l.out, l.path, FALSE)
    ELSE go_push_holder(l, tag, InsertAll(EmptyMap, l.case_names, l.cases),
                        path_to_identifier(l.path))

\* mutant: the Elements arm declares an alias of its own, as the Enum arm does
go_array_of_aliased(r) ==
    Ret(GoIdentifier(path_to_identifier(r.path)),
        Append(r.out, GoType(path_to_identifier(r.path), GoArray(r.ast))),
        r.path, r.ok)

go_array_of(r) == Ret(GoArray(r.ast), r.out, r.path, r.ok)
go_map_of(r) == Ret(GoMap(r.ast), r.out, r.path, r.ok)

go_transform_subschema(o, path, node) ==
    CASE node.form = "Empty" -> Ret(GoAny, o, path, TRUE)
      [] node.form = "Ref" ->
            Ret(GoIdentifier(path_to_identifier(<<node.def>>)), o, path, TRUE)
      [] node.form = "Type" -> Ret(go_type(node.typ), o, path, TRUE)
      [] node.form = "Enum" -> go_enum(o, path, node.vals, path_to_identifier(path))
      [] node.form = "Elements" ->
            go_array_of(go_transform_subschema(o, path, node.sub))
      [] node.form = "Properties" -> go_properties(o, path, node)
      [] node.form = "Values" ->
            go_map_of(go_transform_subschema(o, path, node.sub))
      [] node.form = "Discriminator" ->
            go_holder_of(node.tag, go_cases_loop(o, path, node.mapping, 1, <<>>, <<>>))

\* mutant: the alias is pushed whatever the AST is
go_transform_for_id_always(o, path, ast) ==
    Append(o, GoType(path_to_identifier(path), ast))

\* Ensure that an AST will get a top-level identifier
go_transform_for_id(o, path, ast) ==
    IF ast.k \in {"Struct", "Type", "Identifier"} THEN o
    ELSE Append(o, GoType(path_to_identifier(path), ast))

----------------------------------------------------------------------------
(* The TypeScript backend: codegen/typescript/mod.rs                       *)

TsAny == [k |-> "Any"]
TsBoolean == [k |-> "Boolean"]
TsNumber == [k |-> "Number"]
TsString == [k |-> "String"]
TsIdentifier(id) == [k |-> "Identifier", id |-> id]
TsLiteral(lit) == [k |-> "Literal", lit |-> lit]
TsArray(ast) == [k |-> "Array", ast |-> ast]
TsMap(ast) == [k |-> "Map", ast |-> ast]
TsType(id, ast) == [k |-> "Type", id |-> id, ast |-> ast]
TsInterface(name, props) == [k |-> "Interface", id |-> name, props |-> props]
TsUnion(asts) == [k |-> "Union", asts |-> asts]

\* pub struct Property of the TypeScript backend
TsProperty(name, required, value) ==
    [name |-> name, required |-> required, value |-> value]

RECURSIVE ts_transform_subschema(_, _, _)
RECURSIVE ts_props_loop(_, _, _, _, _, _)
RECURSIVE ts_cases_loop(_, _, _, _, _, _)

ts_prop_of(name, required, r) ==
    [prop |-> TsProperty(name, required, r.ast),
     out |-> r.out, path |-> Pop(r.path), ok |-> r.ok]

ts_transform_prop(o, path, required, name, prop) ==
    ts_prop_of(name, required, ts_transform_subschema(o, Append(path, name), prop))

ts_props_push(required, entries, i, props, r) ==
    IF ~r.ok THEN [props |-> props, out |-> r.out, path |-> r.path, ok |-> FALSE]
    ELSE ts_props_loop(r.out, r.path, required, entries, i + 1, Append(props, r.prop))

ts_props_loop(o, path, required, entries, i, props) ==
    IF i > Len(entries) THEN [props |-> props, out |-> o, path |-> path, ok |-> TRUE]
    ELSE ts_props_push(required, entries, i, props,
                       ts_transform_prop(o, path, required, entries[i].name,
                                         entries[i].schema))

\* out.push(Ast::Interface(id, props)); Ast::Identifier(id)
ts_push_interface(l, id) ==
    Ret(TsIdentifier(id), Append(l.out, TsInterface(id, l.props)), l.path, l.ok)

ts_optional_loop(node, req) ==
    IF ~req.ok THEN req
    ELSE ts_props_loop(req.out, req.path, FALSE, node.optional, 1, req.props)

ts_interface_of(l) ==
    IF ~l.ok THEN Ret(TsAny, l.out, l.path, FALSE)
    ELSE ts_push_interface(l, path_to_identifier(l.path))

\* the required loop, the optional loop and the push of the interface; props0
\* is the property list the loops start from (the tag property in a case)
ts_properties(o, path, node, props0) ==
    ts_interface_of(ts_optional_loop(node,
                       ts_props_loop(o, path, TRUE, node.required, 1, props0)))

ts_cases_push(tag, mapping, i, cases, r) ==
    IF ~r.ok THEN [cases |-> cases, out |-> r.out, path |-> r.path, ok |-> FALSE]
    ELSE ts_cases_loop(r.out, Pop(r.path), tag, mapping, i + 1, Append(cases, r.ast))

\* for (name, case) in mapping { ... }, lines 118-146
ts_cases_loop(o, path, tag, mapping, i, cases) ==
    IF i > Len(mapping)
      THEN [cases |-> cases, out |-> o, path |-> path, ok |-> TRUE]
    ELSE IF mapping[i].schema.form # "Properties"
      THEN [cases |-> cases, out |-> o, path |-> Append(path, mapping[i].name),
            ok |-> FALSE]
    ELSE ts_cases_push(tag, mapping, i, cases,
                       ts_properties(o, Append(path, mapping[i].name),
                                     mapping[i].schema,
                                     << TsProperty(tag, TRUE,
                                                   TsLiteral(mapping[i].name)) >>))

ts_type(typ) ==
    CASE typ = "boolean" -> TsBoolean
      [] typ = "number" -> TsNumber
      [] typ = "string" -> TsString
      [] typ = "timestamp" -> TsString

ts_union_of(l) ==
    IF ~l.ok THEN Ret(TsAny, l.out, l.path, FALSE)
    ELSE Ret(TsUnion(l.cases), l.out, l.path, TRUE)

ts_array_of(r) == Ret(TsArray(r.ast), r.out, r.path, r.ok)
ts_map_of(r) == Ret(TsMap(r.ast), r.out, r.path, r.ok)

ts_transform_subschema(o, path, node) ==
    CASE node.form = "Empty" -> Ret(TsAny, o, path, TRUE)
      [] node.form = "Ref" ->
            Ret(TsIdentifier(path_to_identifier(<<node.def>>)), o, path, TRUE)
      [] node.form = "Type" -> Ret(ts_type(node.typ), o, path, TRUE)
      [] node.form = "Enum" ->
            Ret(TsUnion([i \in 1..Len(node.vals) |-> TsLiteral(node.vals[i])]),
                o, path, TRUE)
      [] node.form = "Elements" ->
            ts_array_of(ts_transform_subschema(o, path, node.sub))
      [] node.form = "Properties" -> ts_properties(o, path, node, <<>>)
      [] node.form = "Values" ->
            ts_map_of(ts_transform_subschema(o, path, node.sub))
      [] node.form = "Discriminator" ->
            ts_union_of(ts_cases_loop(o, path, node.tag, node.mapping, 1, <<>>))

ts_transform_for_id(o, path, ast) ==
    IF ast.k \in {"Interface", "Type", "Identifier"} THEN o
    ELSE Append(o, TsType(path_to_identifier(path), ast))

----------------------------------------------------------------------------
(* The emitters: serialize_subschema of both backends.  The text is a      *)
(* sequence of tokens; an identifier or a literal contributes its          *)
(* characters; a double quote is written ' and a back quote |.               *)

RECURSIVE Flatten(_)
Flatten(ss) == IF ss = <<>> THEN <<>> ELSE ss[1] \o Flatten(Tail(ss))

\* the keys of a HashMap in the order |ord| (a sequence that holds every key
\* once): the iteration order of the map in this process
RECURSIVE KeysInOrder(_, _)
KeysInOrder(m, ord) ==
    IF ord = <<>> THEN <<>>
    ELSE IF ord[1] \in DOMAIN m THEN <<ord[1]>> \o KeysInOrder(m, Tail(ord))
    ELSE KeysInOrder(m, Tail(ord))

RECURSIVE go_serialize_subschema(_, _)

\* lines 265-277: one case of the switch of UnmarshalJSON
go_unmarshal_case(name, val, ord) ==
    <<"\tcase '">> \o name \o <<"':\n", "\t\tvar data ">>
    \o go_serialize_subschema(val, ord)
    \o <<"\n", "\t\tif err := json.Unmarshal(buf, &data); err != nil {\n",
         "\t\t\treturn err\n", "\t\t}\n", "\t\ts.Val = data\n">>

\* lines 287-302: one case of the type switch of MarshalJSON
go_marshal_case(tag, val, ord) ==
    <<"\tcase ">> \o go_serialize_subschema(val, ord)
    \o <<":\n", "\t\tvar data struct{\n", "\t\t\tTag string |json:'">> \o tag
    \o <<"'|\n", "\t\t\t">> \o go_serialize_subschema(val, ord)
    \o <<"\n", "\t\t}\n", "\t\tdata.">> \o go_serialize_subschema(val, ord)
    \o <<" = val\n", "\t\tdata.Tag = s.">> \o to_class_case(tag)
    \o <<"\n", "\t\treturn json.Marshal(data)\n">>

\* lines 257-306: the codec of a holder struct
go_serialize_codec(name, json, ord) ==
    LET keys == KeysInOrder(json.mapping, ord)
    IN  <<"func (s *">> \o name \o <<") UnmarshalJSON(buf []byte) error {\n",
          "\tvar x struct{ Tag string |json:'">> \o json.tag
        \o <<"'| }\n", "\tif err := json.Unmarshal(buf, &x); err != nil {\n",
             "\t\treturn err\n", "\t}\n", "\tswitch x.Tag {\n">>
        \o Flatten([i \in 1..Len(keys) |->
                       go_unmarshal_case(keys[i], json.mapping[keys[i]], ord)])
        \o <<"\t}\n", "\ts.">> \o to_class_case(json.tag)
        \o <<" = x.Tag\n", "\treturn nil\n", "}\n", "func (s ">> \o name
        \o <<") MarshalJSON() ([]byte, error) {\n", "\tswitch val := s.Val.(type) {\n">>
        \o Flatten([i \in 1..Len(keys) |->
                       go_marshal_case(json.tag, json.mapping[keys[i]], ord)])
        \o <<"\t}\n", "\tpanic('invalid discriminator tag')\n", "}\n">>

go_serialize_prop(prop, ord) ==
    <<"\t">> \o prop.name \o <<" ">> \o go_serialize_subschema(prop.value, ord)
    \o <<" |json:'">> \o prop.json_name \o <<",omitempty'|\n">>

go_serialize_subschema(ast, ord) ==
    CASE ast.k = "Any" -> <<"interface{}">>
      [] ast.k = "Boolean" -> <<"bool">>
      [] ast.k = "Number" -> <<"float64">>
      [] ast.k = "String" -> <<"string">>
      [] ast.k = "Time" -> <<"time.Time">>
      [] ast.k = "Identifier" -> ast.id
      [] ast.k = "Literal" -> <<"'">> \o ast.lit \o <<"'">>
      [] ast.k = "Array" -> <<"[]">> \o go_serialize_subschema(ast.ast, ord)
      [] ast.k = "Map" -> <<"map[string]">> \o go_serialize_subschema(ast.ast, ord)
      [] ast.k = "Type" ->
            <<"type ">> \o ast.id \o <<" ">> \o go_serialize_subschema(ast.ast, ord)
            \o <<"\n">>
      [] ast.k = "Var" ->
            <<"var ">> \o ast.id \o <<" ">> \o go_serialize_subschema(ast.typ, ord)
            \o <<" = ">> \o go_serialize_subschema(ast.val, ord) \o <<"\n">>
      [] ast.k = "Struct" ->
            <<"type ">> \o ast.id \o <<" struct {\n">>
            \o Flatten([i \in 1..Len(ast.props) |-> go_serialize_prop(ast.props[i], ord)])
            \o <<"}\n">>
            \o (IF ast.json = <<>> THEN <<>>
                ELSE go_serialize_codec(ast.id, ast.json[1], ord))

\* fn serialize of the Go backend: the package line, then every declaration
go_serialize(asts, ord) ==
    <<"package ", "pkg", "\n">>
    \o Flatten([i \in 1..Len(asts) |-> go_serialize_subschema(asts[i], ord)])

RECURSIVE ts_serialize_subschema(_)

ts_serialize_prop(prop) ==
    <<"  ">> \o prop.name \o (IF prop.required THEN <<>> ELSE <<"?">>) \o <<": ">>
    \o ts_serialize_subschema(prop.value) \o <<";\n">>

ts_serialize_subschema(ast) ==
    CASE ast.k = "Any" -> <<"any">>
      [] ast.k = "Boolean" -> <<"boolean">>
      [] ast.k = "Number" -> <<"number">>
      [] ast.k = "String" -> <<"string">>
      [] ast.k = "Identifier" -> ast.id
      [] ast.k = "Literal" -> <<"'">> \o ast.lit \o <<"'">>
      [] ast.k = "Array" -> ts_serialize_subschema(ast.ast) \o <<"[]">>
      [] ast.k = "Map" ->
            <<"{ [name: string]: ">> \o ts_serialize_subschema(ast.ast) \o <<" }">>
      [] ast.k = "Type" ->
            <<"export type ">> \o ast.id \o <<" = ">>
            \o ts_serialize_subschema(ast.ast) \o <<";\n">>
      [] ast.k = "Interface" ->
            <<"export interface ">> \o ast.id \o <<" {\n">>
            \o Flatten([i \in 1..Len(ast.props) |-> ts_serialize_prop(ast.props[i])])
            \o <<"}\n">>
      [] ast.k = "Union" ->
            \* the asts of a union are never empty here: an enum has a value and
            \* a mapping of the documents has a case
            Flatten([i \in 1..(Len(ast.asts) - 1) |->
                        ts_serialize_subschema(ast.asts[i]) \o <<" | ">>])
            \o ts_serialize_subschema(ast.asts[Len(ast.asts)])

ts_serialize(asts) ==
    Flatten([i \in 1..Len(asts) |-> ts_serialize_subschema(asts[i])])

----------------------------------------------------------------------------
(* The input documents                                                     *)

MaxDefs == 2     \* definitions of a document
MaxProps == 2    \* entries of one required or optional map
MaxCases == 2    \* cases of one discriminator mapping
MaxVals == 2     \* values of one enum
MaxRuns == 2     \* invocations on the same document

\* root_name: the class-cased stem of the input file, here r.json
RootName == <<"R">>
DefNames == { <<"a">>, <<"A">>, <<"r">> }
PropNames == { <<"p">>, <<"q">> }
CaseNames == { <<"x">>, <<"X">>, <<"y">> }
EnumValues == { <<"x">>, <<"y">>, <<"a", "_", "b">> }
TagName == <<"t">>
Types == { "boolean", "number", "string", "timestamp" }

\* sequences of at most n distinct elements of S
InjSeqs(S, n) ==
    UNION { { f \in [1..k -> S] : \A i, j \in 1..k : i # j => f[i] # f[j] } :
            k \in 0..n }

\* the maps with at most n keys of Names and values of Sub, in every
\* iteration order
EntrySeqs(Names, Sub, n) ==
    UNION { { [i \in 1..Len(ns) |-> Entry(ns[i], g[i])] : g \in [1..Len(ns) -> Sub] } :
            ns \in InjSeqs(Names, n) }

KeySet(entries) == { entries[i].name : i \in 1..Len(entries) }

EnumNodes == { Enum(vs) : vs \in InjSeqs(EnumValues, MaxVals) \ { <<>> } }

\* what a property, an element or a map value may be
SubNodes == { Type("string"), Ref(<<"a">>), Enum(<< <<"x">> >>),
              Properties(<<>>, <<>>) }

PropertiesNodes ==
    { n \in { Properties(req, opt) :
                req \in EntrySeqs(PropNames, SubNodes, MaxProps),
                opt \in EntrySeqs(PropNames, SubNodes, MaxProps) } :
        KeySet(n.required) \cap KeySet(n.optional) = {} }

\* the cases of a mapping: no property, or properties of primitive type
CaseNodes ==
    { Properties(<<>>, <<>>),
      Properties(<< Entry(<<"p">>, Type("number")) >>,
                 << Entry(<<"q">>, Type("string")) >>) }

DiscriminatorNodes ==
    { Discriminator(TagName, m) :
        m \in EntrySeqs(CaseNames, CaseNodes, MaxCases) \ { <<>> } }

LeafNodes ==
    { Empty } \cup { Type(t) : t \in Types } \cup { Ref(d) : d \in DefNames }
    \cup EnumNodes

\* every form, in some variety: the roots of the documents with few definitions
RootNodes ==
    LeafNodes \cup { Elements(n) : n \in SubNodes \cup { Empty } }
    \cup { Values(n) : n \in SubNodes \cup { Empty } }
    \cup PropertiesNodes \cup DiscriminatorNodes

\* the definitions: the forms that get a declaration of their own, the forms
\* that get an alias, and a Ref
DefNodes ==
    { Empty, Type("string"), Ref(<<"a">>), Enum(<< <<"x">> >>),
      Properties(<< Entry(<<"p">>, Type("string")) >>, <<>>),
      Discriminator(TagName, << Entry(<<"x">>, Properties(<<>>, <<>>)) >>) }

\* the roots of the documents with many definitions
SimpleRoots == { Ref(<<"a">>), Properties(<<>>, <<>>) }

RECURSIVE RefsOf(_)
RefsOfEntries(entries) == UNION { RefsOf(entries[i].schema) : i \in 1..Len(entries) }
RefsOf(node) ==
    CASE node.form = "Ref" -> { node.def }
      [] node.form \in {"Elements", "Values"} -> RefsOf(node.sub)
      [] node.form = "Properties" ->
            RefsOfEntries(node.required) \cup RefsOfEntries(node.optional)
      [] node.form = "Discriminator" -> RefsOfEntries(node.mapping)
      [] OTHER -> {}

\* the boundary contract (a): every Ref names a definition
RefsResolve(doc) ==
    RefsOf(doc.root) \cup RefsOfEntries(doc.definitions) \subseteq KeySet(doc.definitions)

Documents ==
    { d \in [root : RootNodes,
             definitions : { <<>>, << Entry(<<"a">>, Type("string")) >> }]
          \cup [root : SimpleRoots,
                 definitions : EntrySeqs(DefNames, DefNodes, MaxDefs)] :
        RefsResolve(d) }

----------------------------------------------------------------------------
(* One invocation: transform, then serialize                               *)

None == [none |-> TRUE]

\* HashMap::new() of targets/java
NoNames == [n \in {} |-> <<>>]

transform_subschema(o, path, node) ==
    IF backend = "go" THEN go_transform_subschema(o, path, node)
    ELSE ts_transform_subschema(o, path, node)

transform_for_id(o, path, ast) ==
    IF backend = "go" THEN go_transform_for_id(o, path, ast)
    ELSE ts_transform_for_id(o, path, ast)

\* the two statements every top-level node goes through
top_for_id(r) == transform_for_id(r.out, r.path, r.ast)

transform_top(o, name, node) == top_for_id(transform_subschema(o, <<name>>, node))

Init ==
    /\ backend \in {"go", "ts"}
    /\ schema \in Documents
    /\ pc = "defs"
    /\ idx = 1
    /\ out = <<>>
    /\ text = <<>>
    /\ run = 1
    /\ prev = None
    /\ holder = None
    /\ wire = None
    /\ def_names = NoNames
    /\ stack = <<>>
    /\ trace = <<>>

\* the top-level node the loop of transform visits next, and its name
NextName ==
    IF idx <= Len(schema.definitions) THEN schema.definitions[idx].name ELSE RootName
NextNode ==
    IF idx <= Len(schema.definitions) THEN schema.definitions[idx].schema
    ELSE schema.root

\* one turn of the loop over schema.definitions(); unreachable!() ends the
\* process
TransformDefinition ==
    /\ pc = "defs"
    /\ idx <= Len(schema.definitions)
    /\ IF transform_subschema(out, <<NextName>>, NextNode).ok
         THEN /\ out' = transform_top(out, NextName, NextNode)
              /\ idx' = idx + 1
              /\ pc' = pc
         ELSE /\ pc' = "aborted"
              /\ UNCHANGED <<out, idx>>
    /\ UNCHANGED <<backend, schema, text, run, prev, holder, wire, def_names, stack, trace>>

\* the root schema, and the return of Ok(out)
TransformRoot ==
    /\ pc = "defs"
    /\ idx > Len(schema.definitions)
    /\ IF transform_subschema(out, <<NextName>>, NextNode).ok
         THEN /\ out' = transform_top(out, NextName, NextNode)
              /\ pc' = "serialize"
         ELSE /\ pc' = "aborted"
              /\ out' = out
    /\ UNCHANGED <<backend, schema, idx, text, run, prev, holder, wire, def_names, stack, trace>>

\* every order in which one process may iterate a map keyed by case names
HashOrders ==
    { ord \in InjSeqs(CaseNames, Cardinality(CaseNames)) :
        Len(ord) = Cardinality(CaseNames) }

\* fn serialize: the declarations in order; the mapping of a Go holder is a
\* HashMap built by transform, iterated in an order of its own
Serialize ==
    /\ pc = "serialize"
    /\ \/ /\ backend = "go"
          /\ \E ord \in HashOrders : text' = go_serialize(out, ord)
       \/ /\ backend = "ts"
          /\ text' = ts_serialize(out)
    /\ pc' = "done"
    /\ UNCHANGED <<backend, schema, idx, out, run, prev, holder, wire, def_names, stack, trace>>

Perms(n) == { p \in [1..n -> 1..n] : \A i, j \in 1..n : i # j => p[i] # p[j] }

\* the same node with every HashMap in it iterated in any order
RECURSIVE Reorders(_)
RECURSIVE ReorderEntries(_)
ReorderEntries(es) ==
    LET n == Len(es)
        all == UNION { Reorders(es[k].schema) : k \in 1..n }
    IN  UNION { { [i \in 1..n |-> Entry(es[p[i]].name, g[i])] :
                    g \in { h \in [1..n -> all] :
                              \A i \in 1..n : h[i] \in Reorders(es[p[i]].schema) } } :
                p \in Perms(n) }
Reorders(node) ==
    CASE node.form \in {"Elements", "Values"} ->
            { [node EXCEPT !.sub = r] : r \in Reorders(node.sub) }
      [] node.form = "Properties" ->
            { Properties(r, o) : r \in ReorderEntries(node.required),
                                 o \in ReorderEntries(node.optional) }
      [] node.form = "Discriminator" ->
            { Discriminator(node.tag, m) : m \in ReorderEntries(node.mapping) }
      [] OTHER -> { node }

\* main run once more on the same input file: a new process, so every
\* HashMap of the parsed document has a new iteration order
Reinvoke ==
    /\ pc = "done"
    /\ run < MaxRuns
    /\ \E r \in Reorders(schema.root), d \in ReorderEntries(schema.definitions) :
          schema' = [root |-> r, definitions |-> d]
    /\ prev' = [out |-> out, text |-> text]
    /\ pc' = "defs"
    /\ idx' = 1
    /\ out' = <<>>
    /\ text' = <<>>
    /\ run' = run + 1
    /\ holder' = None
    /\ wire' = None
    /\ UNCHANGED <<backend, def_names, stack, trace>>

----------------------------------------------------------------------------
(* The generated Go program: the holder struct of a discriminator and the  *)
(* UnmarshalJSON / MarshalJSON that lines 257-306 write for it.            *)
(* A JSON value is <<kind, characters>>; a JSON object is a function from  *)
(* keys to JSON values.  A Go struct value is [type, fields], the fields   *)
(* in the order of the declaration.                                        *)

Nil == [type |-> <<"n", "i", "l">>, fields |-> <<>>]

go_kind(ast) ==
    CASE ast.k = "Number" -> "number"
      [] ast.k = "String" -> "string"
      [] ast.k = "Boolean" -> "boolean"
      [] OTHER -> "other"

\* the zero value of a Go type, and the values of the model
go_zero(ast) ==
    CASE ast.k = "Number" -> <<"0">>
      [] ast.k = "Boolean" -> <<"f">>
      [] OTHER -> <<>>

go_values(ast) ==
    CASE ast.k = "Number" -> { <<"0">>, <<"5">> }
      [] ast.k = "String" -> { <<>>, <<"s">> }
      [] ast.k = "Boolean" -> { <<"f">>, <<"t">> }
      [] OTHER -> { <<>> }

StructDecls(o) == { o[i] : i \in { j \in 1..Len(o) : o[j].k = "Struct" } }
HolderDecls(o) == { d \in StructDecls(o) : d.json # <<>> }
StructDecl(o, id) == CHOOSE d \in StructDecls(o) : d.id = id

\* the Go compiler rejects a package that declares a name twice
NoRedeclaration(o) == \A i, j \in 1..Len(o) : i # j => o[i].id # o[j].id

Instances(decl) ==
    { [type |-> decl.id, fields |-> f] :
        f \in { g \in [1..Len(decl.props) ->
                         UNION { go_values(decl.props[i].value) :
                                   i \in 1..Len(decl.props) }] :
                  \A i \in 1..Len(decl.props) : g[i] \in go_values(decl.props[i].value) } }

VariantDecls(o, h) ==
    { StructDecl(o, h.json[1].mapping[c].id) : c \in DOMAIN h.json[1].mapping }

\* mutant: the tag written is the case of the active value's type, not s.Tag
MarshalJSON_tag_of_type(o, h, s) ==
    IF \E c \in DOMAIN h.json[1].mapping : h.json[1].mapping[c].id = s.Val.type
      THEN [status |-> "ok",
            bytes |-> [k \in {h.json[1].tag} |->
                         <<"string", CHOOSE c \in DOMAIN h.json[1].mapping :
                                        h.json[1].mapping[c].id = s.Val.type>>]]
      ELSE [status |-> "panic", bytes |-> <<>>]

\* json.Marshal of `var data struct { Tag string |json:tag|; Variant }`: the
\* tag, then the promoted fields of the embedded variant, each omitempty; a
\* promoted field named like the tag is hidden by the shallower Tag
go_marshal_data(o, tag, tagval, val) ==
    LET v == StructDecl(o, val.type)
        present == { i \in 1..Len(v.props) :
                       /\ val.fields[i] # go_zero(v.props[i].value)
                       /\ v.props[i].json_name # tag }
        keys == { v.props[i].json_name : i \in present }
    IN  [key \in {tag} \cup keys |->
            IF key = tag THEN <<"string", tagval>>
            ELSE LET i == CHOOSE j \in present : v.props[j].json_name = key
                 IN  <<go_kind(v.props[i].value), val.fields[i]>>]

\* func (s Holder) MarshalJSON() ([]byte, error): the type switch over the
\* variant types, and the panic after it
MarshalJSON(o, h, s) ==
    IF \E c \in DOMAIN h.json[1].mapping : h.json[1].mapping[c].id = s.Val.type
      THEN [status |-> "ok",
            bytes |-> go_marshal_data(o, h.json[1].tag, s.Tag, s.Val)]
      ELSE [status |-> "panic", bytes |-> <<>>]

\* mutant: pass 2 reads no field of the object
go_unmarshal_data_empty(o, id, buf) ==
    [err |-> FALSE,
     data |-> [type |-> id,
               fields |-> [i \in 1..Len(StructDecl(o, id).props) |->
                              go_zero(StructDecl(o, id).props[i].value)]]]

\* json.Unmarshal(buf, &data) for data of the struct type `id`: [err, data]
go_unmarshal_data(o, id, buf) ==
    LET v == StructDecl(o, id)
        bad == { i \in 1..Len(v.props) :
                   /\ v.props[i].json_name \in DOMAIN buf
                   /\ buf[v.props[i].json_name][1] # go_kind(v.props[i].value) }
    IN  [err |-> bad # {},
         data |-> [type |-> id,
                   fields |-> [i \in 1..Len(v.props) |->
                       IF v.props[i].json_name \in DOMAIN buf /\ i \notin bad
                         THEN buf[v.props[i].json_name][2]
                         ELSE go_zero(v.props[i].value)]]]

\* mutant: the tag is stored before pass 2 and stays stored when pass 2 fails
UnmarshalJSON_tag_first(o, h, s, buf) ==
    LET tag == h.json[1].tag
        mapping == h.json[1].mapping
        pass1err == tag \in DOMAIN buf /\ buf[tag][1] # "string"
        xTag == IF tag \in DOMAIN buf /\ ~pass1err THEN buf[tag][2] ELSE <<>>
    IN  IF pass1err THEN [s EXCEPT !.err = TRUE]
        ELSE IF xTag \in DOMAIN mapping
          THEN LET r == go_unmarshal_data(o, mapping[xTag].id, buf)
               IN  IF r.err THEN [s EXCEPT !.Tag = xTag, !.err = TRUE]
                   ELSE [s EXCEPT !.Val = r.data, !.Tag = xTag, !.err = FALSE]
          ELSE [s EXCEPT !.Tag = xTag, !.err = FALSE]

\* func (s *Holder) UnmarshalJSON(buf []byte) error: the holder after the
\* call, with err set when the call returned an error
UnmarshalJSON(o, h, s, buf) ==
    LET tag == h.json[1].tag
        mapping == h.json[1].mapping
        pass1err == tag \in DOMAIN buf /\ buf[tag][1] # "string"
        xTag == IF tag \in DOMAIN buf /\ ~pass1err THEN buf[tag][2] ELSE <<>>
    IN  IF pass1err THEN [s EXCEPT !.err = TRUE]
        ELSE IF xTag \in DOMAIN mapping
          THEN LET r == go_unmarshal_data(o, mapping[xTag].id, buf)
               IN  IF r.err THEN [s EXCEPT !.err = TRUE]
                   ELSE [s EXCEPT !.Val = r.data, !.Tag = xTag, !.err = FALSE]
          ELSE [s EXCEPT !.Tag = xTag, !.err = FALSE]

\* the zero value of a holder struct
FreshHolder(h) ==
    [type |-> h.id, Tag |-> <<>>, Val |-> Nil, from |-> "new", err |-> FALSE]

TagValues == CaseNames \cup { <<>> }

GoProgramRuns == backend = "go" /\ pc = "done" /\ NoRedeclaration(out)

\* hand-written construction: any tag with any variant value, in lock-step
\* or not
Construct ==
    /\ GoProgramRuns
    /\ \E h \in HolderDecls(out), t \in TagValues :
         \E v \in {Nil} \cup UNION { Instances(d) : d \in VariantDecls(out, h) } :
            holder' = [type |-> h.id, Tag |-> t, Val |-> v, from |-> "constructed",
                       err |-> FALSE]
    /\ wire' = None
    /\ UNCHANGED <<backend, schema, pc, idx, out, text, run, prev, def_names, stack, trace>>

\* json.Marshal(holder)
Marshal ==
    /\ GoProgramRuns
    /\ holder # None
    /\ LET h == StructDecl(out, holder.type)
       IN  wire' = [src |-> holder, res |-> MarshalJSON(out, h, holder)]
    /\ holder' = [holder EXCEPT !.from = "encoded"]
    /\ UNCHANGED <<backend, schema, pc, idx, out, text, run, prev, def_names, stack, trace>>

\* json.Unmarshal(bytes, &fresh) of the bytes the last Marshal returned
Unmarshal ==
    /\ GoProgramRuns
    /\ wire # None
    /\ wire.res.status = "ok"
    /\ LET h == StructDecl(out, wire.src.type)
       IN  holder' = [UnmarshalJSON(out, h, FreshHolder(h), wire.res.bytes)
                        EXCEPT !.from = "decoded"]
    /\ UNCHANGED <<backend, schema, pc, idx, out, text, run, prev, wire, def_names, stack, trace>>

----------------------------------------------------------------------------
(* targets/java: render_schema returns the Java expression of a node as a  *)
(* String and prints the classes; a printed class is one entry of text,    *)
(* [class, required], its fields a set because they are printed in the     *)
(* iteration order of a HashMap built in the call.                         *)

java_path_to_identifier(path) == to_class_case(join(path))

\* what a render_schema call leaves behind: the returned String, the printed
\* text, the path, and whether the call returned (ok = FALSE: the index
\* def_names[def] panicked)
JavaRet(name, txt, path, ok) == [name |-> name, text |-> txt, path |-> path, ok |-> ok]

java_type(typ) ==
    CASE typ = "boolean" -> <<"boolean">>
      [] typ = "number" -> <<"double">>
      [] typ = "string" -> <<"String">>
      [] typ = "timestamp" -> <<"Instant">>

\* Form::Ref: def_names[def].clone()
java_ref(dn, def, txt, path) ==
    IF def \in DOMAIN dn THEN JavaRet(dn[def], txt, path, TRUE)
    ELSE JavaRet(<<>>, txt, path, FALSE)

RECURSIVE java_render_schema(_, _, _, _)
RECURSIVE java_props_loop(_, _, _, _, _, _)

\* path.pop(); props.insert(name, sub_name)
java_props_push(dn, entries, i, props, r) ==
    IF ~r.ok THEN [props |-> props, text |-> r.text, path |-> r.path, ok |-> FALSE]
    ELSE java_props_loop(dn, Pop(r.path), entries, i + 1,
                         props \cup { <<entries[i].name, r.name>> }, r.text)

java_props_loop(dn, path, entries, i, props, txt) ==
    IF i > Len(entries) THEN [props |-> props, text |-> txt, path |-> path, ok |-> TRUE]
    ELSE java_props_push(dn, entries, i, props,
                         java_render_schema(dn, Append(path, entries[i].name),
                                            entries[i].schema, txt))

\* the loop over optional fills optional_props, which nothing reads
java_optional_loop(dn, node, req) ==
    IF ~req.ok THEN req
    ELSE [java_props_loop(dn, req.path, node.optional, 1, {}, req.text)
            EXCEPT !.props = req.props]

\* println! of the class and of its required fields; Ok("")
java_print_class(l) ==
    IF ~l.ok THEN JavaRet(<<>>, l.text, l.path, FALSE)
    ELSE JavaRet(<<>>,
                 Append(l.text, [class |-> java_path_to_identifier(l.path),
                                 required |-> l.props]),
                 l.path, TRUE)

java_render_schema(dn, path, node, txt) ==
    CASE node.form = "Empty" -> JavaRet(<<"Object">>, txt, path, TRUE)
      [] node.form = "Ref" -> java_ref(dn, node.def, txt, path)
      [] node.form = "Type" -> JavaRet(java_type(node.typ), txt, path, TRUE)
      [] node.form = "Properties" ->
            java_print_class(
                java_optional_loop(dn, node,
                    java_props_loop(dn, path, node.required, 1, {}, txt)))
      [] OTHER -> JavaRet(<<"asdf">>, txt, path, TRUE)

\* def_names.insert(name, def_name)
java_insert(dn, name, def_name) ==
    [n \in DOMAIN dn \cup {name} |-> IF n = name THEN def_name ELSE dn[n]]

InitJava ==
    /\ backend = "java"
    /\ schema \in Documents
    /\ pc = "defs"
    /\ idx = 1
    /\ out = <<>>
    /\ text = <<>>
    /\ run = 1
    /\ prev = None
    /\ holder = None
    /\ wire = None
    /\ def_names = NoNames
    /\ stack = <<>>
    /\ trace = <<>>

\* one turn of the loop of codegen over schema.definitions()
JavaRenderDefinition ==
    /\ pc = "defs"
    /\ idx <= Len(schema.definitions)
    /\ IF java_render_schema(def_names, <<NextName>>, NextNode, text).ok
         THEN /\ def_names' =
                    java_insert(def_names, NextName,
                        java_render_schema(def_names, <<NextName>>, NextNode, text).name)
              /\ text' = java_render_schema(def_names, <<NextName>>, NextNode, text).text
              /\ idx' = idx + 1
              /\ pc' = pc
         ELSE /\ pc' = "aborted"
              /\ UNCHANGED <<def_names, text, idx>>
    /\ UNCHANGED <<backend, schema, out, run, prev, holder, wire, stack, trace>>

\* the root schema, and Ok(())
JavaRenderRoot ==
    /\ pc = "defs"
    /\ idx > Len(schema.definitions)
    /\ IF java_render_schema(def_names, <<RootName>>, schema.root, text).ok
         THEN /\ text' = java_render_schema(def_names, <<RootName>>, schema.root, text).text
              /\ pc' = "done"
         ELSE /\ pc' = "aborted"
              /\ text' = text
    /\ UNCHANGED <<backend, schema, idx, out, run, prev, holder, wire, def_names, stack, trace>>

NextJava ==
    \/ JavaRenderDefinition
    \/ JavaRenderRoot

SpecJava == InitJava /\ [][NextJava]_vars

\* the JSON objects a caller may hand to UnmarshalJSON: the tag absent, a
\* case, no case, or not a string; each property absent, a number or a string
JsonValues ==
    { <<"string", <<"x">>>>, <<"string", <<"y">>>>, <<"string", <<"z">>>>,
      <<"number", <<"5">>>> }
PropValues == { <<"string", <<"x">>>>, <<"number", <<"5">>>> }
WireKeys == { TagName } \cup PropNames
JsonObjects ==
    UNION { { f \in [K -> JsonValues] : \A k \in K \ {TagName} : f[k] \in PropValues } :
            K \in SUBSET WireKeys }

\* var s Holder
NewHolder ==
    /\ GoProgramRuns
    /\ \E h \in HolderDecls(out) : holder' = FreshHolder(h)
    /\ wire' = None
    /\ UNCHANGED <<backend, schema, pc, idx, out, text, run, prev, def_names, stack, trace>>

\* json.Unmarshal(buf, &s) into the holder the program has, whatever it
\* holds; from records whether s has only ever been decoded into
UnmarshalInto ==
    /\ GoProgramRuns
    /\ holder # None
    /\ \E buf \in JsonObjects :
          holder' = [UnmarshalJSON(out, StructDecl(out, holder.type), holder, buf)
                       EXCEPT !.from = IF holder.from \in {"new", "unmarshalled"}
                                         THEN "unmarshalled" ELSE "overwritten"]
    /\ wire' = None
    /\ UNCHANGED <<backend, schema, pc, idx, out, text, run, prev, def_names, stack, trace>>

\* documents that break a boundary contract: a Ref that names no definition,
\* or a mapping with a case that is not of the Properties form
BadDiscriminatorNodes ==
    { Discriminator(TagName, m) :
        m \in { e \in EntrySeqs(CaseNames, CaseNodes \cup { Type("string"), Empty },
                                 MaxCases) :
                  \E i \in 1..Len(e) : e[i].schema.form # "Properties" } }

BadDocuments ==
    { d \in [root : RootNodes \cup BadDiscriminatorNodes,
             definitions : { <<>>, << Entry(<<"r">>, Type("string")) >>,
                             << Entry(<<"a">>, Discriminator(TagName,
                                   << Entry(<<"x">>, Type("string")) >>)) >> }] :
        \/ ~RefsResolve(d)
        \/ d.root \in BadDiscriminatorNodes
        \/ \E i \in 1..Len(d.definitions) :
              d.definitions[i].schema.form = "Discriminator" }

InitBoundary ==
    /\ backend \in {"go", "ts"}
    /\ schema \in BadDocuments
    /\ pc = "defs"
    /\ idx = 1
    /\ out = <<>>
    /\ text = <<>>
    /\ run = 1
    /\ prev = None
    /\ holder = None
    /\ wire = None
    /\ def_names = NoNames
    /\ stack = <<>>
    /\ trace = <<>>

NextBoundary ==
    \/ TransformDefinition
    \/ TransformRoot
    \/ Serialize

SpecBoundary == InitBoundary /\ [][NextBoundary]_vars

----------------------------------------------------------------------------
(* targets/typescript: render_schema returns the TypeScript expression of  *)
(* a node as a String (a sequence of characters and tokens, a double quote *)
(* written ') and writes declarations to out, here text: [interface,       *)
(* required, optional], the properties as sets of <<name, type>> because   *)
(* they are written in the iteration order of a HashMap built in the call; *)
(* [alias, value] for `export type`; [default] for `export default`.       *)

\* HashMap::insert(name, sub_name)
tts_insert(props, name, sub_name) ==
    { pr \in props : pr[1] # name } \cup { <<name, sub_name>> }

\* values.join(" | ")
RECURSIVE tts_join(_)
tts_join(names) ==
    IF names = <<>> THEN <<>>
    ELSE IF Len(names) = 1 THEN names[1]
    ELSE names[1] \o <<" | ">> \o tts_join(Tail(names))

RECURSIVE tts_render_schema(_, _, _)
RECURSIVE tts_props_loop(_, _, _, _)
RECURSIVE tts_cases_loop(_, _, _)

\* path.pop(); the insert into required_props or optional_props
tts_props_push(entries, i, which, st, r) ==
    IF ~r.ok THEN [st EXCEPT !.text = r.text, !.path = r.path, !.ok = FALSE]
    ELSE tts_props_loop(entries, i + 1, which,
            [st EXCEPT !.text = r.text, !.path = Pop(r.path),
                       ![which] = tts_insert(st[which], entries[i].name, r.name)])

\* for (name, sub_schema) in required / optional; st = [required, optional,
\* text, path, ok]
tts_props_loop(entries, i, which, st) ==
    IF ~st.ok \/ i > Len(entries) THEN st
    ELSE tts_props_push(entries, i, which, st,
            tts_render_schema(Append(st.path, entries[i].name),
                              entries[i].schema, st.text))

\* the writeln! calls of render_interface, and Ok(name)
tts_write_interface(st) ==
    IF ~st.ok THEN JavaRet(<<>>, st.text, st.path, FALSE)
    ELSE JavaRet(to_class_case(join(st.path)),
                 Append(st.text, [interface |-> to_class_case(join(st.path)),
                                  required |-> st.required,
                                  optional |-> st.optional]),
                 st.path, TRUE)

\* render_interface without the insert of the tag
tts_render_interface_untagged(path, tag, node, txt) ==
    tts_write_interface(
        tts_props_loop(node.optional, 1, "optional",
            tts_props_loop(node.required, 1, "required",
                [required |-> {}, optional |-> {}, text |-> txt,
                 path |-> path, ok |-> TRUE])))

\* tag is <<>> (None) or << <<tag_name, tag_value>> >> (Some)
tts_render_interface(path, tag, node, txt) ==
    tts_write_interface(
        tts_props_loop(node.optional, 1, "optional",
            tts_props_loop(node.required, 1, "required",
                [required |-> { <<tag[i][1], <<"'">> \o tag[i][2] \o <<"'">>>> :
                                  i \in 1..Len(tag) },
                 optional |-> {}, text |-> txt, path |-> path, ok |-> TRUE])))

\* sub_names.push(..); path.pop()
tts_cases_push(node, i, st, r) ==
    IF ~r.ok THEN [st EXCEPT !.text = r.text, !.path = r.path, !.ok = FALSE]
    ELSE tts_cases_loop(node, i + 1,
            [st EXCEPT !.text = r.text, !.path = Pop(r.path),
                       !.sub_names = Append(st.sub_names, r.name)])

\* for (name, sub_schema) in mapping; st = [sub_names, text, path, ok]
tts_cases_loop(node, i, st) ==
    IF i > Len(node.mapping) THEN st
    ELSE IF node.mapping[i].schema.form # "Properties"
      THEN [st EXCEPT !.path = Append(st.path, node.mapping[i].name), !.ok = FALSE]
    ELSE tts_cases_push(node, i, st,
            tts_render_interface(Append(st.path, node.mapping[i].name),
                                 << <<node.tag, node.mapping[i].name>> >>,
                                 node.mapping[i].schema, st.text))

\* writeln!(out, "export type {} = {};", name, sub_names.join(" | ")); Ok(name)
tts_write_union(st) ==
    IF ~st.ok THEN JavaRet(<<>>, st.text, st.path, FALSE)
    ELSE JavaRet(to_class_case(join(st.path)),
                 Append(st.text, [alias |-> to_class_case(join(st.path)),
                                  value |-> tts_join(st.sub_names)]),
                 st.path, TRUE)

tts_wrap(before, r, after) == JavaRet(before \o r.name \o after, r.text, r.path, r.ok)

\* the documents of the model hold no description, so no comment is written
tts_render_schema(path, node, txt) ==
    CASE node.form = "Empty" -> JavaRet(<<"any">>, txt, path, TRUE)
      [] node.form = "Ref" -> JavaRet(to_class_case(join(<<node.def>>)), txt, path, TRUE)
      [] node.form = "Type" ->
            JavaRet(IF node.typ = "boolean" THEN <<"boolean">>
                    ELSE IF node.typ = "number" THEN <<"number">> ELSE <<"string">>,
                    txt, path, TRUE)
      [] node.form = "Elements" ->
            tts_wrap(<<>>, tts_render_schema(path, node.sub, txt), <<"[]">>)
      [] node.form = "Enum" ->
            JavaRet(tts_join([i \in 1..Len(node.vals) |->
                                <<"'">> \o node.vals[i] \o <<"'">>]),
                    txt, path, TRUE)
      [] node.form = "Properties" -> tts_render_interface(path, <<>>, node, txt)
      [] node.form = "Values" ->
            tts_wrap(<<"{ [name: string]: ">>,
                     tts_render_schema(path, node.sub, txt), <<" }">>)
      [] node.form = "Discriminator" ->
            tts_write_union(
                tts_cases_loop(node, 1,
                    [sub_names |-> <<>>, text |-> txt, path |-> path, ok |-> TRUE]))

\* the alias render writes for a definition that wrote no type of its name
tts_alias(name, node, r) ==
    IF node.form \in {"Empty", "Ref", "Type", "Elements", "Enum", "Values"}
      THEN Append(r.text, [alias |-> to_class_case(join(<<name>>)), value |-> r.name])
      ELSE r.text

InitTargetTs ==
    /\ backend = "targets/typescript"
    /\ schema \in Documents
    /\ pc = "defs"
    /\ idx = 1
    /\ out = <<>>
    /\ text = <<>>
    /\ run = 1
    /\ prev = None
    /\ holder = None
    /\ wire = None
    /\ def_names = NoNames
    /\ stack = <<>>
    /\ trace = <<>>

\* one turn of the loop of render over schema.definitions()
TsRenderDefinition ==
    /\ pc = "defs"
    /\ idx <= Len(schema.definitions)
    /\ IF tts_render_schema(<<NextName>>, NextNode, text).ok
         THEN /\ text' = tts_alias(NextName, NextNode,
                                   tts_render_schema(<<NextName>>, NextNode, text))
              /\ idx' = idx + 1
              /\ pc' = pc
         ELSE /\ pc' = "aborted"
              /\ UNCHANGED <<text, idx>>
    /\ UNCHANGED <<backend, schema, out, run, prev, holder, wire, def_names, stack, trace>>

\* the root schema, `export default`, and Ok(())
TsRenderRoot ==
    /\ pc = "defs"
    /\ idx > Len(schema.definitions)
    /\ IF tts_render_schema(<<RootName>>, schema.root, text).ok
         THEN /\ text' = Append(tts_render_schema(<<RootName>>, schema.root, text).text,
                                [default |-> tts_render_schema(<<RootName>>,
                                                               schema.root, text).name])
              /\ pc' = "done"
         ELSE /\ pc' = "aborted"
              /\ text' = text
    /\ UNCHANGED <<backend, schema, idx, out, run, prev, holder, wire, def_names, stack, trace>>

----------------------------------------------------------------------------
(* The traversal of one transform pass, call by call.  A frame is the      *)
(* [path, node] of one transform_subschema call; a case of a mapping, which *)
(* the Discriminator arm handles in its own loop, is a frame too.          *)

MaxVisits == 16  \* calls of one pass

Frame(path, node) == [path |-> path, node |-> node]

EntryFrames(path, entries) ==
    [i \in 1..Len(entries) |-> Frame(Append(path, entries[i].name), entries[i].schema)]

\* mutant: the Ref arm descends into the definition it names
subschemas_ref_descends(f) ==
    CASE f.node.form \in {"Elements", "Values"} -> << Frame(f.path, f.node.sub) >>
      [] f.node.form = "Properties" ->
            EntryFrames(f.path, f.node.required) \o EntryFrames(f.path, f.node.optional)
      [] f.node.form = "Discriminator" -> EntryFrames(f.path, f.node.mapping)
      [] f.node.form = "Ref" ->
            << Frame(<<f.node.def>>,
                     schema.definitions[
                         CHOOSE j \in 1..Len(schema.definitions) :
                             schema.definitions[j].name = f.node.def].schema) >>
      [] OTHER -> <<>>

\* the calls an arm makes, in order: Elements and Values on the sub-schema
\* with the same path, Properties (and each case) on every required and then
\* every optional property, Discriminator on every case; Empty, Ref, Type
\* and Enum make none (go 90-184, typescript 84-150)
subschemas(f) ==
    CASE f.node.form \in {"Elements", "Values"} -> << Frame(f.path, f.node.sub) >>
      [] f.node.form = "Properties" ->
            EntryFrames(f.path, f.node.required) \o EntryFrames(f.path, f.node.optional)
      [] f.node.form = "Discriminator" -> EntryFrames(f.path, f.node.mapping)
      [] OTHER -> <<>>

\* definitions that refer to themselves and to each other
CyclicNodes ==
    { Ref(<<"a">>), Ref(<<"r">>),
      Elements(Ref(<<"r">>)),
      Values(Ref(<<"a">>)),
      Properties(<< Entry(<<"p">>, Ref(<<"a">>)) >>, << Entry(<<"q">>, Ref(<<"r">>)) >>),
      Discriminator(TagName,
          << Entry(<<"x">>, Properties(<< Entry(<<"p">>, Ref(<<"r">>)) >>, <<>>)) >>) }

TraversalRoots ==
    { Empty, Ref(<<"a">>), Enum(<< <<"x">> >>),
      Elements(Properties(<< Entry(<<"p">>, Type("string")) >>,
                          << Entry(<<"q">>, Values(Ref(<<"a">>))) >>)),
      Discriminator(TagName,
          << Entry(<<"x">>, Properties(<<>>, <<>>)),
             Entry(<<"y">>, Properties(<< Entry(<<"p">>, Type("number")) >>,
                                       << Entry(<<"q">>, Ref(<<"a">>)) >>)) >>) }

CyclicDocuments ==
    { d \in [root : TraversalRoots,
             definitions : EntrySeqs({ <<"a">>, <<"r">> }, CyclicNodes, MaxDefs)] :
        RefsResolve(d) }

InitTraversal ==
    /\ backend \in {"go", "ts"}
    /\ schema \in CyclicDocuments
    /\ pc = "defs"
    /\ idx = 1
    /\ out = <<>>
    /\ text = <<>>
    /\ run = 1
    /\ prev = None
    /\ holder = None
    /\ wire = None
    /\ def_names = NoNames
    /\ stack = <<>>
    /\ trace = <<>>

\* transform calls transform_subschema on the next definition, or on the root
Enter ==
    /\ pc = "defs"
    /\ stack' = << Frame(<<NextName>>, NextNode) >>
    /\ pc' = "call"
    /\ UNCHANGED <<backend, schema, idx, out, text, run, prev, holder, wire,
                   def_names, trace>>

\* the call on top runs its arm: the calls the arm makes come before the
\* calls that were waiting
Visit ==
    /\ pc = "call"
    /\ stack # <<>>
    /\ Len(trace) < MaxVisits
    /\ trace' = Append(trace, Head(stack))
    /\ stack' = subschemas(Head(stack)) \o Tail(stack)
    /\ UNCHANGED <<backend, schema, pc, idx, out, text, run, prev, holder, wire,
                   def_names>>

\* the call on the top-level node has returned: transform_for_id, and the
\* next turn of the loop, or Ok(out) after the root
Return ==
    /\ pc = "call"
    /\ stack = <<>>
    /\ out' = transform_top(out, NextName, NextNode)
    /\ IF idx <= Len(schema.definitions)
         THEN idx' = idx + 1 /\ pc' = "defs"
         ELSE idx' = idx /\ pc' = "serialize"
    /\ UNCHANGED <<backend, schema, text, run, prev, holder, wire, def_names,
                   stack, trace>>

NextTraversal ==
    \/ Enter
    \/ Visit
    \/ Return

\* Return can be taken exactly in the states where the call on the top-level
\* node has no call left to make, and it leaves them
AtReturn == pc = "call" /\ stack = <<>>

\* the process is single-threaded and synchronous: the step that can be
\* taken is taken.  Weak fairness of Return is written by its enabling
\* condition: the pass does not stay at a return for ever.
SpecTraversal ==
    /\ InitTraversal
    /\ [][NextTraversal]_vars
    /\ WF_vars(Enter)
    /\ WF_vars(Visit)
    /\ []<>(~AtReturn)

\* a code generator run, and run again, on a document
Next ==
    \/ TransformDefinition
    \/ TransformRoot
    \/ Serialize
    \/ Reinvoke

Spec == Init /\ [][Next]_vars

\* either TypeScript backend, codegen/typescript or targets/typescript, run
\* on a document
InitTypeScript ==
    \/ Init /\ backend = "ts"
    \/ InitTargetTs

NextTypeScript ==
    \/ backend = "ts" /\ TransformDefinition
    \/ backend = "ts" /\ TransformRoot
    \/ backend = "ts" /\ Serialize
    \/ backend = "ts" /\ Reinvoke
    \/ backend = "targets/typescript" /\ TsRenderDefinition
    \/ backend = "targets/typescript" /\ TsRenderRoot

SpecTypeScript == InitTypeScript /\ [][NextTypeScript]_vars

\* one Go code generator run on a document that holds a discriminator, and
\* then the generated program
HasDiscriminator(doc) ==
    \/ doc.root.form = "Discriminator"
    \/ \E i \in 1..Len(doc.definitions) :
          doc.definitions[i].schema.form = "Discriminator"

InitCodec == Init /\ backend = "go" /\ HasDiscriminator(schema)

NextCodec ==
    \/ TransformDefinition
    \/ TransformRoot
    \/ Serialize
    \/ Construct
    \/ Marshal
    \/ Unmarshal
    \/ NewHolder
    \/ UnmarshalInto

SpecCodec == InitCodec /\ [][NextCodec]_vars

----------------------------------------------------------------------------
(* The claims                                                              *)

\* transform has returned Ok(out)
Transformed == pc \in {"serialize", "done"}

\* the names of the top-level nodes: the definitions and the root
TopNames == KeySet(schema.definitions) \cup { RootName }

\* the positions of the output list that declare `id`
Declared(o, id) == { i \in 1..Len(o) : o[i].id = id }

\* the names every Ref of the document refers to
AllRefs == RefsOf(schema.root) \cup RefsOfEntries(schema.definitions)

\* C1: when transform has returned, the output list holds exactly one
\* declaration named by the path-derived identifier of every definition and
\* of the root, whatever the form of that node.
C1_TopLevelNameability ==
    Transformed =>
        \A n \in TopNames :
            Cardinality(Declared(out, path_to_identifier(<<n>>))) = 1

\* C2: when transform has returned, every name a Ref of the document refers
\* to is declared in the output list under path_to_identifier([name]).
C2_NamingRoundTrip ==
    Transformed =>
        \A n \in AllRefs : Declared(out, path_to_identifier(<<n>>)) # {}

\* C3: a second invocation on the same document ends with the same
\* declaration list and the same text as the first.
C3_Determinism ==
    (pc = "done" /\ prev # None) => (out = prev.out /\ text = prev.text)

\* the holder's tag is a case of the mapping and its active value is of the
\* variant type of that case
InLockStep(o, s) ==
    /\ s.Tag \in DOMAIN StructDecl(o, s.type).json[1].mapping
    /\ s.Val.type = StructDecl(o, s.type).json[1].mapping[s.Tag].id

C5_UnrepresentableStatePanics ==
    (wire # None /\ ~InLockStep(out, wire.src)) => wire.res.status = "panic"

\* the wire name a field of an aggregate carries
WireName(prop) == IF backend = "go" THEN prop.json_name ELSE prop.name

\* C6: the aggregate of a Properties root has one field per property, the
\* required ones first, each with the property name as its wire name and
\* with its requiredness recorded.
C6_AggregateFieldFidelity ==
    (Transformed /\ schema.root.form = "Properties") =>
        /\ Len(out[Len(out)].props) =
              Len(schema.root.required) + Len(schema.root.optional)
        /\ \A i \in 1..Len(out[Len(out)].props) :
              /\ WireName(out[Len(out)].props[i]) =
                    (schema.root.required \o schema.root.optional)[i].name
              /\ "required" \in DOMAIN out[Len(out)].props[i]
              /\ out[Len(out)].props[i].required = (i <= Len(schema.root.required))

\* C7: in the Go backend the step that transforms a top-level Enum node with
\* n values appends n + 1 declarations to the list it found: the string type
\* named by the node's identifier, then one var per value in order, typed by
\* that identifier and holding the value; the call returns the identifier.
C7_EnumEmission ==
    [][ (backend = "go" /\ pc = "defs" /\ NextNode.form = "Enum") =>
          /\ Len(out') = Len(out) + Len(NextNode.vals) + 1
          /\ SubSeq(out', 1, Len(out)) = out
          /\ out'[Len(out) + 1].k = "Type"
          /\ out'[Len(out) + 1].id = path_to_identifier(<<NextName>>)
          /\ out'[Len(out) + 1].ast.k = "String"
          /\ \A i \in 1..Len(NextNode.vals) :
                /\ out'[Len(out) + 1 + i].k = "Var"
                /\ out'[Len(out) + 1 + i].typ.k = "Identifier"
                /\ out'[Len(out) + 1 + i].typ.id = path_to_identifier(<<NextName>>)
                /\ out'[Len(out) + 1 + i].val.k = "Literal"
                /\ out'[Len(out) + 1 + i].val.lit = NextNode.vals[i]
          /\ go_transform_subschema(out, <<NextName>>, NextNode).ast.k = "Identifier"
          /\ go_transform_subschema(out, <<NextName>>, NextNode).ast.id =
                path_to_identifier(<<NextName>>) ]_vars

C7_Witness ==
    /\ backend = "go"
    /\ pc = "serialize"
    /\ schema.root.form = "Enum"
    /\ Len(schema.root.vals) = 2
    /\ Len(schema.definitions) = 1
    /\ Len(out) = 4
    /\ out[4].k = "Var"

\* C8: a document with no definitions and the root Properties {} yields one
\* declaration: the aggregate named after the root, with no fields.
C8_EmptyRoot ==
    (pc # "defs" /\ schema.definitions = <<>> /\ schema.root = Properties(<<>>, <<>>)) =>
        /\ Transformed
        /\ Len(out) = 1
        /\ out[1].k \in {"Struct", "Interface"}
        /\ out[1].id = path_to_identifier(<<RootName>>)
        /\ out[1].props = <<>>

C8_Witness ==
    /\ pc = "done"
    /\ schema.definitions = <<>>
    /\ schema.root = Properties(<<>>, <<>>)
    /\ Len(out) = 1

\* C9: in the Go backend the mapping of the holder of a Discriminator root
\* has one entry per case, keyed by the tag value, and no two tag values
\* share a variant type.
C9_DiscriminatorMetadata ==
    (backend = "go" /\ Transformed /\ schema.root.form = "Discriminator") =>
        /\ DOMAIN out[Len(out)].json[1].mapping = KeySet(schema.root.mapping)
        /\ \A a, b \in DOMAIN out[Len(out)].json[1].mapping :
              a # b => out[Len(out)].json[1].mapping[a] # out[Len(out)].json[1].mapping[b]

\* C10: two distinct top-level names never get the same identifier.
C10_TopLevelIdentifiersUnique ==
    Transformed =>
        \A n1, n2 \in TopNames :
            n1 # n2 => path_to_identifier(<<n1>>) # path_to_identifier(<<n2>>)

\* C11: in targets/java, every Ref of a document whose Refs all name a
\* definition is rendered, whether the definition was visited before the Ref
\* or is visited after it: no run ends in the panic of the name lookup, and a
\* finished run has a name for every definition.
C11_RefOrderIndependence ==
    /\ pc # "aborted"
    /\ pc = "done" => DOMAIN def_names = KeySet(schema.definitions)

\* C12: a holder that started fresh and has only been decoded into is in
\* lock-step whenever the last UnmarshalJSON call returned success.
C12_TagVariantLockStep ==
    (holder # None /\ holder.from = "unmarshalled" /\ ~holder.err) =>
        InLockStep(out, holder)

C14_DecodeFailureLeavesHolder ==
    [][ (holder # None /\ holder' # None
         /\ holder'.from \in {"unmarshalled", "overwritten"} /\ holder'.err) =>
          /\ holder'.Tag = holder.Tag
          /\ holder'.Val = holder.Val
          /\ holder'.type = holder.type ]_vars

\* a decode into a holder that holds a variant failed
C14_Witness ==
    /\ holder # None
    /\ holder.from \in {"unmarshalled", "overwritten"}
    /\ holder.err
    /\ holder.Val # Nil
    /\ holder.Tag # <<>>

\* C15: a run on a document with a dangling Ref or with a case that is not
\* of the Properties form never returns from transform with an output list.
C15_BoundaryViolationAborts == ~Transformed

\* every node a transform_subschema call is made for inside `node`, with the
\* path the call is made with
RECURSIVE NodesAt(_, _)
RECURSIVE EntriesAt(_, _)
EntriesAt(path, entries) ==
    UNION { NodesAt(Append(path, entries[i].name), entries[i].schema) :
              i \in 1..Len(entries) }
NodesAt(path, node) ==
    { [path |-> path, node |-> node] } \cup
    CASE node.form \in {"Elements", "Values"} -> NodesAt(path, node.sub)
      [] node.form = "Properties" ->
            EntriesAt(path, node.required) \cup EntriesAt(path, node.optional)
      [] node.form = "Discriminator" ->
            UNION { EntriesAt(Append(path, node.mapping[i].name),
                              node.mapping[i].schema.required)
                      \cup EntriesAt(Append(path, node.mapping[i].name),
                                     node.mapping[i].schema.optional) :
                    i \in 1..Len(node.mapping) }
      [] OTHER -> {}

LastDecl(o) == o[Len(o)]

\* the list after the transform_subschema calls for entries i.. of a map
RECURSIVE PropsOut(_, _, _, _)
PropsOut(o, path, entries, i) ==
    IF i > Len(entries) THEN o
    ELSE PropsOut(transform_subschema(o, Append(path, entries[i].name),
                                      entries[i].schema).out,
                  path, entries, i + 1)

\* the forms whose arm computes an identifier from the path
NamedByPath(node) ==
    \/ node.form = "Properties"
    \/ backend = "go" /\ node.form \in {"Enum", "Discriminator"}

\* C16: for the top-level node the pass visits next and for every node
\* nested in it, the transform_subschema call returns with the path it was
\* entered with, a Properties, Enum or Discriminator node is named by its own
\* path, and every transform_prop call of a Properties node returns with the
\* path of that node.
C16_PathBalance ==
    pc = "defs" =>
        \A c \in NodesAt(<<NextName>>, NextNode) :
            /\ transform_subschema(out, c.path, c.node).path = c.path
            /\ NamedByPath(c.node) =>
                  /\ transform_subschema(out, c.path, c.node).ast.k = "Identifier"
                  /\ transform_subschema(out, c.path, c.node).ast.id =
                        path_to_identifier(c.path)
            /\ c.node.form = "Properties" =>
                  \A i \in 1..Len(c.node.required) :
                      IF backend = "go"
                        THEN go_transform_prop(out, c.path, TRUE,
                                c.node.required[i].name,
                                c.node.required[i].schema).path = c.path
                        ELSE ts_transform_prop(out, c.path, TRUE,
                                c.node.required[i].name,
                                c.node.required[i].schema).path = c.path

\* a root with two required properties, one of them an aggregate, has been
\* transformed
C16_Witness ==
    /\ Transformed
    /\ schema.root.form = "Properties"
    /\ Len(schema.root.required) = 2
    /\ schema.root.required[1].schema.form = "Properties"
    /\ Len(out) >= 2
    /\ out[Len(out)].id = path_to_identifier(<<RootName>>)

\* C17: for the top-level node the pass visits next and every Properties node
\* nested in it, the transform_subschema call only appends to the list, the
\* last declaration it appends is the aggregate of the node, named by the
\* node's path, the one declaration that the calls for the properties did
\* not append, with one field per property, the required ones before the optional ones; the call
\* returns a reference to that name.
C17_PropertiesTransform ==
    pc = "defs" =>
        \A c \in { d \in NodesAt(<<NextName>>, NextNode) : d.node.form = "Properties" } :
            /\ transform_subschema(out, c.path, c.node).ast.k = "Identifier"
            /\ transform_subschema(out, c.path, c.node).ast.id = path_to_identifier(c.path)
            /\ Len(transform_subschema(out, c.path, c.node).out) > Len(out)
            /\ SubSeq(transform_subschema(out, c.path, c.node).out, 1, Len(out)) = out
            /\ transform_subschema(out, c.path, c.node).out =
                  Append(PropsOut(PropsOut(out, c.path, c.node.required, 1),
                                  c.path, c.node.optional, 1),
                         LastDecl(transform_subschema(out, c.path, c.node).out))
            /\ LastDecl(transform_subschema(out, c.path, c.node).out).k
                   \in {"Struct", "Interface"}
            /\ LastDecl(transform_subschema(out, c.path, c.node).out).id =
                   path_to_identifier(c.path)
            /\ Len(LastDecl(transform_subschema(out, c.path, c.node).out).props) =
                   Len(c.node.required) + Len(c.node.optional)
            /\ \A i \in 1..Len(c.node.required) + Len(c.node.optional) :
                   WireName(LastDecl(transform_subschema(out, c.path, c.node).out).props[i])
                      = (c.node.required \o c.node.optional)[i].name

\* a root with a required and an optional property has been transformed
C17_Witness ==
    /\ Transformed
    /\ schema.root.form = "Properties"
    /\ Len(schema.root.required) >= 1
    /\ Len(schema.root.optional) >= 1
    /\ Len(out[Len(out)].props) = Len(schema.root.required) + Len(schema.root.optional)

\* C18: for the top-level node the pass visits next and every node nested in
\* it, a transform_subschema call for an Empty, Type or Ref node returns the
\* list it was given; a call for an Elements or Values node returns the list
\* that the call for its sub-schema returns, and the array or the map of the
\* expression of that call; the path is the one the call was entered with.
C18_InlineFormsFrame ==
    pc = "defs" =>
        \A c \in NodesAt(<<NextName>>, NextNode) :
            /\ c.node.form \in {"Empty", "Type", "Ref"} =>
                  /\ transform_subschema(out, c.path, c.node).out = out
                  /\ transform_subschema(out, c.path, c.node).path = c.path
                  /\ transform_subschema(out, c.path, c.node).ast.k \in
                        {"Any", "Boolean", "Number", "String", "Time", "Identifier"}
            /\ c.node.form \in {"Elements", "Values"} =>
                  /\ transform_subschema(out, c.path, c.node).out =
                        transform_subschema(out, c.path, c.node.sub).out
                  /\ transform_subschema(out, c.path, c.node).path = c.path
                  /\ transform_subschema(out, c.path, c.node).ast =
                        [k |-> IF c.node.form = "Elements" THEN "Array" ELSE "Map",
                         ast |-> transform_subschema(out, c.path, c.node.sub).ast]

\* a map of aggregates at the root has been transformed: the aggregate and
\* the alias of the root are the whole list
C18_Witness ==
    /\ Transformed
    /\ schema.definitions = <<>>
    /\ schema.root.form = "Values"
    /\ schema.root.sub.form = "Properties"
    /\ Len(out) = 2
    /\ out[2].ast.k = "Map"

\* C19: in the Go backend, for the top-level node the pass visits next and
\* every Discriminator node nested in it (k cases, their properties of
\* primitive type), the transform_subschema call appends k + 1 declarations:
\* per case, in the order of the mapping, a struct named by the path extended
\* with the case name that has the fields of the case, required then
\* optional, and no field with the wire name of the tag; then the holder,
\* named by the path of the node, with the two members tag (a string, its
\* wire name the tag name) and Val (untyped, wire name "-"); the call returns
\* a reference to the holder.
C19_GoUnionShape ==
    (pc = "defs" /\ backend = "go") =>
        \A c \in { d \in NodesAt(<<NextName>>, NextNode) : d.node.form = "Discriminator" } :
            /\ go_transform_subschema(out, c.path, c.node).ast =
                  GoIdentifier(path_to_identifier(c.path))
            /\ Len(go_transform_subschema(out, c.path, c.node).out) =
                  Len(out) + Len(c.node.mapping) + 1
            /\ SubSeq(go_transform_subschema(out, c.path, c.node).out, 1, Len(out)) = out
            /\ \A i \in 1..Len(c.node.mapping) :
                  /\ go_transform_subschema(out, c.path, c.node).out[Len(out) + i].k = "Struct"
                  /\ go_transform_subschema(out, c.path, c.node).out[Len(out) + i].json = <<>>
                  /\ go_transform_subschema(out, c.path, c.node).out[Len(out) + i].id =
                        path_to_identifier(Append(c.path, c.node.mapping[i].name))
                  /\ [ j \in 1..Len(go_transform_subschema(out, c.path, c.node)
                                        .out[Len(out) + i].props) |->
                          go_transform_subschema(out, c.path, c.node)
                              .out[Len(out) + i].props[j].json_name ]
                        = [ j \in 1..Len(c.node.mapping[i].schema.required
                                           \o c.node.mapping[i].schema.optional) |->
                              (c.node.mapping[i].schema.required
                                 \o c.node.mapping[i].schema.optional)[j].name ]
                  /\ \A j \in 1..Len(go_transform_subschema(out, c.path, c.node)
                                        .out[Len(out) + i].props) :
                        go_transform_subschema(out, c.path, c.node)
                            .out[Len(out) + i].props[j].json_name # c.node.tag
            /\ LastDecl(go_transform_subschema(out, c.path, c.node).out).k = "Struct"
            /\ LastDecl(go_transform_subschema(out, c.path, c.node).out).id =
                  path_to_identifier(c.path)
            /\ Len(LastDecl(go_transform_subschema(out, c.path, c.node).out).props) = 2
            /\ LastDecl(go_transform_subschema(out, c.path, c.node).out).props[1].json_name
                  = c.node.tag
            /\ LastDecl(go_transform_subschema(out, c.path, c.node).out).props[1].value
                  = GoString
            /\ LastDecl(go_transform_subschema(out, c.path, c.node).out).props[2].json_name
                  = <<"-">>
            /\ LastDecl(go_transform_subschema(out, c.path, c.node).out).props[2].value
                  = GoAny

\* a discriminator root with two cases, one of them with fields, has been
\* transformed by the Go backend
C19_Witness ==
    /\ backend = "go"
    /\ Transformed
    /\ schema.definitions = <<>>
    /\ schema.root.form = "Discriminator"
    /\ Len(schema.root.mapping) = 2
    /\ Len(out) = 3
    /\ Len(out[1].props) = 2
    /\ out[3].json # <<>>

\* the names of the entries of a required or optional map
EntryNames(entries) == { entries[j].name : j \in 1..Len(entries) }

\* decl is the interface codegen/typescript emits for case c of a
\* discriminator with this tag at this path
TsCodegenCase(decl, path, tag, c) ==
    /\ decl.k = "Interface"
    /\ decl.id = path_to_identifier(Append(path, c.name))
    /\ Len(decl.props) = 1 + Len(c.schema.required) + Len(c.schema.optional)
    /\ decl.props[1] = TsProperty(tag, TRUE, TsLiteral(c.name))
    /\ \A j \in 1..Len(c.schema.required) :
          /\ decl.props[1 + j].name = c.schema.required[j].name
          /\ decl.props[1 + j].required
    /\ \A j \in 1..Len(c.schema.optional) :
          /\ decl.props[1 + Len(c.schema.required) + j].name = c.schema.optional[j].name
          /\ ~decl.props[1 + Len(c.schema.required) + j].required

\* r is what codegen/typescript returns for a discriminator at this path
\* transformed into the list o
TsCodegenUnion(r, o, path, node) ==
    /\ r.ok
    /\ r.path = path
    /\ r.ast = TsUnion([i \in 1..Len(node.mapping) |->
                          TsIdentifier(path_to_identifier(
                              Append(path, node.mapping[i].name)))])
    /\ Len(r.out) = Len(o) + Len(node.mapping)
    /\ SubSeq(r.out, 1, Len(o)) = o
    /\ \A i \in 1..Len(node.mapping) :
          TsCodegenCase(r.out[Len(o) + i], path, node.tag, node.mapping[i])

\* decl is the interface targets/typescript writes for case c
TsTargetCase(decl, path, tag, c) ==
    /\ DOMAIN decl = {"interface", "required", "optional"}
    /\ decl.interface = to_class_case(join(Append(path, c.name)))
    /\ <<tag, <<"'">> \o c.name \o <<"'">>>> \in decl.required
    /\ { pr[1] : pr \in decl.required } = {tag} \cup EntryNames(c.schema.required)
    /\ Cardinality(decl.required) = 1 + Len(c.schema.required)
    /\ { pr[1] : pr \in decl.optional } = EntryNames(c.schema.optional)
    /\ Cardinality(decl.optional) = Len(c.schema.optional)

\* r is what targets/typescript returns for a discriminator at this path
\* rendered after txt: the expression is the name of the type it declares
\* as the union of the interfaces
TsTargetUnion(r, txt, path, node) ==
    /\ r.ok
    /\ r.path = path
    /\ Len(r.text) = Len(txt) + Len(node.mapping) + 1
    /\ SubSeq(r.text, 1, Len(txt)) = txt
    /\ \A i \in 1..Len(node.mapping) :
          TsTargetCase(r.text[Len(txt) + i], path, node.tag, node.mapping[i])
    /\ r.name = to_class_case(join(path))
    /\ r.text[Len(r.text)] =
          [alias |-> r.name,
           value |-> tts_join([i \in 1..Len(node.mapping) |->
                                 to_class_case(join(Append(path, node.mapping[i].name)))])]

\* C20: in both TypeScript backends, for the top-level node the pass visits
\* next and every Discriminator node nested in it (tag t, its cases'
\* properties of primitive type), the call emits one interface per case c, in
\* the order of the mapping, named by the path extended with c, whose
\* properties are the required property t of the literal type c, the
\* required properties of c and the optional properties of c, and nothing
\* else; the expression of the node is the union of the identifiers of these
\* interfaces (codegen/typescript), or the name of the type the call declares
\* as that union (targets/typescript).
C20_TsUnionShape ==
    pc = "defs" =>
        \A c \in { d \in NodesAt(<<NextName>>, NextNode) : d.node.form = "Discriminator" } :
            IF backend = "ts"
              THEN TsCodegenUnion(ts_transform_subschema(out, c.path, c.node),
                                  out, c.path, c.node)
              ELSE TsTargetUnion(tts_render_schema(c.path, c.node, text),
                                 text, c.path, c.node)

\* targets/typescript has rendered a discriminator root with two cases, one
\* of them with fields: two interfaces, the union and the default export
C20_Witness ==
    /\ backend = "targets/typescript"
    /\ pc = "done"
    /\ schema.root.form = "Discriminator"
    /\ Len(schema.root.mapping) = 2
    /\ Len(text) = 4
    /\ Cardinality(text[1].required) = 2
    /\ text[3].alias = to_class_case(RootName)

\* the named nodes nested in the node c: the Properties nodes (and, in Go,
\* the Enum nodes) below it, and the cases of a Discriminator
NestedNamed(c) ==
    { d \in NodesAt(c.path, c.node) : d # c /\ NamedByPath(d.node) }
    \cup (IF c.node.form = "Discriminator"
            THEN { [path |-> Append(c.path, c.node.mapping[i].name),
                    node |-> c.node.mapping[i].schema] :
                   i \in 1..Len(c.node.mapping) }
            ELSE {})

\* ro is the list o after the node c: the declaration of c is its last, and
\* every named node nested in c is declared after o and before that
NestedFirst(ro, o, c) ==
    /\ Len(ro) > Len(o)
    /\ LastDecl(ro).k \in {"Struct", "Interface", "Type"}
    /\ LastDecl(ro).id = path_to_identifier(c.path)
    /\ \A d \in NestedNamed(c) :
          \E j \in (Len(o) + 1)..(Len(ro) - 1) :
              /\ ro[j].k \in {"Struct", "Interface", "Type"}
              /\ ro[j].id = path_to_identifier(d.path)

\* the nodes of the next top-level node whose arm pushes a declaration that
\* encloses others
Enclosing ==
    { d \in NodesAt(<<NextName>>, NextNode) :
        \/ d.node.form = "Properties"
        \/ backend = "go" /\ d.node.form = "Discriminator" }

\* C21: in every step of one transform pass (Go and TypeScript backends) the
\* output list keeps what it held, unchanged and in place, and may only get
\* longer; the root is the last node the pass transforms, so that every
\* declaration of a definition precedes every declaration of the root; within
\* the node the pass transforms, every nested named node (aggregate, Go enum,
\* union case) is declared before the aggregate, the holder or the union
\* alias that encloses it; serialize leaves the list as transform returned
\* it.
C21_DeclarationOrder ==
    [][ /\ pc = "defs" =>
              /\ Len(out') >= Len(out)
              /\ SubSeq(out', 1, Len(out)) = out
              /\ idx > Len(schema.definitions) => pc' # "defs"
              /\ idx <= Len(schema.definitions) => (pc' = "defs" => idx' = idx + 1)
              /\ \A c \in Enclosing :
                    NestedFirst(transform_subschema(out, c.path, c.node).out, out, c)
              /\ (backend = "ts" /\ NextNode.form = "Discriminator") =>
                    NestedFirst(transform_top(out, NextName, NextNode), out,
                                [path |-> <<NextName>>, node |-> NextNode])
        /\ pc = "serialize" => out' = out ]_vars

\* the Go backend has transformed a definition that is a discriminator and
\* then an aggregate at the root: the case, its holder, and last the root
C21_Witness ==
    /\ backend = "go"
    /\ Transformed
    /\ Len(schema.definitions) >= 1
    /\ schema.definitions[1].schema.form = "Discriminator"
    /\ schema.root.form = "Properties"
    /\ Len(out) >= 3
    /\ out[1].id = path_to_identifier(<<schema.definitions[1].name, <<"x">>>>)
    /\ out[2].id = path_to_identifier(<<schema.definitions[1].name>>)
    /\ LastDecl(out).id = path_to_identifier(<<RootName>>)

\* the nodes of a tree: NodesAt and the cases of its discriminators
TreeNodes(path, node) ==
    NodesAt(path, node)
    \cup UNION { { Frame(Append(c.path, c.node.mapping[i].name),
                         c.node.mapping[i].schema) : i \in 1..Len(c.node.mapping) } :
                 c \in { d \in NodesAt(path, node) : d.node.form = "Discriminator" } }

\* every node of the document, each under the path of its place
DocumentNodes ==
    TreeNodes(<<RootName>>, schema.root)
    \cup UNION { TreeNodes(<<schema.definitions[i].name>>, schema.definitions[i].schema) :
                 i \in 1..Len(schema.definitions) }

\* C22: on every document, also one whose definitions refer to themselves or
\* to each other through Ref, the pass comes to return Ok(out), and by then
\* it has made one call for every node of the document and no other: a Ref
\* node is visited without a call on the definition it names.
C22_Termination ==
    <>(/\ pc = "serialize"
       /\ stack = <<>>
       /\ { trace[i] : i \in 1..Len(trace) } = DocumentNodes
       /\ Len(trace) = Cardinality(DocumentNodes))

\* the pass has returned on a document whose two definitions refer to each
\* other
C22_Witness ==
    /\ pc = "serialize"
    /\ Len(schema.definitions) = 2
    /\ schema.definitions[1].schema = Elements(Ref(schema.definitions[2].name))
    /\ schema.definitions[2].schema.form = "Properties"
    /\ schema.definitions[1].name \in RefsOf(schema.definitions[2].schema)
    /\ Len(trace) >= 5

====
